---- MODULE Spec2Model ----
(***************************************************************************)
(* Model of package http (http.go): the request/response pipeline with     *)
(* hook interception.  A call goes through send -> do: the Before hooks,   *)
(* httpClient.Do, doParseResponse, the After hooks.  The hook registry     *)
(* globalHttpHook is a Go slice (pointer, len, cap) over a backing array,  *)
(* and AddHook is an unsynchronised read-append-write of it.               *)
(***************************************************************************)
EXTENDS Integers, Sequences, FiniteSets, TLC

(* ---------------------------- bounds ---------------------------------- *)
\* number of calls of a public operation (Get, Post, ...) that may overlap
NumCalls == 2
\* number of AddHook calls made during the run
MaxHooks == 2
\* number of goroutines that call AddHook
NumRegistrars == 2
\* longest response body the stub server writes
MaxBody == 1

Calls == 1..NumCalls
Registrars == 1..NumRegistrars

(* ------------------------- program constants -------------------------- *)
StatusOK == 200

POST == "POST"
GET == "GET"
PATCH == "PATCH"
PUT == "PUT"
DELETE == "DELETE"
RequestMethodType == {POST, GET, PATCH, PUT, DELETE}

(* ------------------------------ values -------------------------------- *)
\* error values: NilErr is Go's nil error; text is the text of Error()
NilErr == [kind |-> "nil", hook |-> 0, text |-> <<>>]
NewErr(k, t) == [kind |-> k, hook |-> 0, text |-> t]
\* the error a hook's Before/After returns (user defined, one per hook and phase)
HookErr(h, phase) == [kind |-> "hook", hook |-> h, text |-> <<phase>>]
\* the error http.Client.Do returns (connection refused, timeout, ...)
TransportErr == NewErr("transport", <<"dial tcp: connection refused">>)
\* the error http.Client.Do returns when the request's context is done
CtxErr == NewErr("transport", <<"context canceled">>)
\* the error of a failed Body.Read
ReadErr == NewErr("read", <<"unexpected EOF">>)
\* the error of gourl.Parse / http.NewRequest
UrlParseErr == NewErr("urlparse", <<"parse: missing protocol scheme">>)
NewRequestErr == NewErr("newrequest", <<"net/http: invalid request">>)

\* http.Header (nil or a map) and the any-typed response data (nil or []byte)
NilHeader == [isNil |-> TRUE, h |-> {}]
NilData == [isNil |-> TRUE, bytes |-> <<>>]
Bytes(b) == [isNil |-> FALSE, bytes |-> b]

\* the (int, http.Header, any, error) tuple the operations return
Tuple(code, headers, data, err) ==
  [code |-> code, headers |-> headers, data |-> data, err |-> err]
NoTuple == Tuple(0, NilHeader, NilData, NilErr)

Digit(d) == <<"0", "1", "2", "3", "4", "5", "6", "7", "8", "9">>[d + 1]

RECURSIVE Itoa(_)
\* strconv.Itoa for n >= 0: the decimal digits, most significant first
Itoa(n) == IF n < 10 THEN <<Digit(n)>> ELSE Itoa(n \div 10) \o <<Digit(n % 10)>>

(* ----------------------------- contexts -------------------------------- *)
\* context.Context: the root it derives from and the values attached since.
\* Root 0 is context.Background(); root c is the context the caller of call c
\* supplied.  A context is done when its root has been cancelled.
Background == [root |-> 0, vals |-> {}]
CallerCtx(c) == [root |-> c, vals |-> {}]
\* context.WithValue: the newest value for a key shadows the older ones
WithValue(ctx, k, v) ==
  [ctx EXCEPT !.vals = {p \in @ : p[1] # k} \cup {<<k, v>>}]

(* ------------------------------ strings -------------------------------- *)
\* A Go string is modelled as the sequence of its characters.
\* The characters the model uses, in ASCII order.
AsciiOrder ==
  <<" ", "\"", "%", "&", "+", "-", ".", "/",
    "0", "1", "2", "3", "4", "5", "6", "7", "8", "9", ":", ";", "=", "?",
    "A", "B", "C", "D", "E", "F", "_",
    "a", "b", "e", "h", "m", "p", "s", "t", "w", "x", "{", "}", "~">>
Chars == {AsciiOrder[i] : i \in 1..Len(AsciiOrder)}
Ord(ch) == CHOOSE i \in 1..Len(AsciiOrder) : AsciiOrder[i] = ch

\* url.shouldEscape(c, encodeQueryComponent): letters, digits and -_.~ are kept
Unreserved ==
  {"0", "1", "2", "3", "4", "5", "6", "7", "8", "9",
   "A", "B", "C", "D", "E", "F", "_", "-", ".", "~",
   "a", "b", "e", "h", "m", "p", "s", "t", "w", "x"}

\* the two upper-case hex digits of the characters that are escaped
HexOf(ch) ==
  CASE ch = "\"" -> <<"2", "2">>
    [] ch = "%" -> <<"2", "5">>
    [] ch = "&" -> <<"2", "6">>
    [] ch = "+" -> <<"2", "B">>
    [] ch = "/" -> <<"2", "F">>
    [] ch = ":" -> <<"3", "A">>
    [] ch = ";" -> <<"3", "B">>
    [] ch = "=" -> <<"3", "D">>
    [] ch = "?" -> <<"3", "F">>
    [] ch = "{" -> <<"7", "B">>
    [] ch = "}" -> <<"7", "D">>
    [] OTHER -> <<"2", "0">>
Escaped == Chars \ (Unreserved \cup {" "})

\* no escaping at all
QueryEscape_Raw(s) == s

RECURSIVE QueryEscape(_)
\* url.QueryEscape: space becomes +, reserved characters become %XX
QueryEscape(s) ==
  IF s = <<>> THEN <<>>
  ELSE LET ch == Head(s)
           e == IF ch \in Unreserved THEN <<ch>>
                ELSE IF ch = " " THEN <<"+">>
                ELSE <<"%">> \o HexOf(ch)
       IN e \o QueryEscape(Tail(s))

RECURSIVE QueryUnescape(_)
\* url.QueryUnescape: [ok, s]; fails on a % that is not followed by two hex
\* digits (of the characters the model has, the ones HexOf produces)
QueryUnescape(s) ==
  IF s = <<>> THEN [ok |-> TRUE, s |-> <<>>]
  ELSE IF Head(s) = "%"
  THEN IF Len(s) < 3 \/ ~(\E ch \in Escaped \cup {" "} : HexOf(ch) = SubSeq(s, 2, 3))
       THEN [ok |-> FALSE, s |-> <<>>]
       ELSE LET ch == CHOOSE x \in Escaped \cup {" "} : HexOf(x) = SubSeq(s, 2, 3)
                r == QueryUnescape(SubSeq(s, 4, Len(s)))
            IN [ok |-> r.ok, s |-> <<ch>> \o r.s]
  ELSE LET r == QueryUnescape(Tail(s))
       IN [ok |-> r.ok, s |-> <<IF Head(s) = "+" THEN " " ELSE Head(s)>> \o r.s]

\* strings.Index of a character: 0 when absent (1-based otherwise)
IndexOf(s, ch) ==
  IF \E i \in 1..Len(s) : s[i] = ch
  THEN CHOOSE i \in 1..Len(s) : s[i] = ch /\ \A j \in 1..(i - 1) : s[j] # ch
  ELSE 0
\* strings.Cut
CutBefore(s, ch) == IF IndexOf(s, ch) = 0 THEN s ELSE SubSeq(s, 1, IndexOf(s, ch) - 1)
CutAfter(s, ch) == IF IndexOf(s, ch) = 0 THEN <<>> ELSE SubSeq(s, IndexOf(s, ch) + 1, Len(s))

RECURSIVE StrLess(_, _)
\* s < t for Go strings (byte-wise lexicographic)
StrLess(s, t) ==
  IF t = <<>> THEN FALSE
  ELSE IF s = <<>> THEN TRUE
  ELSE IF Head(s) # Head(t) THEN Ord(Head(s)) < Ord(Head(t))
  ELSE StrLess(Tail(s), Tail(t))

(* ------------------------------ net/url -------------------------------- *)
\* url.Values: a function from keys to the non-empty list of their values
NoValues == [k \in {} |-> <<>>]
ValuesAdd(m, k, v) ==
  [x \in DOMAIN m \cup {k} |->
     IF x = k THEN (IF k \in DOMAIN m THEN Append(m[k], v) ELSE <<v>>) ELSE m[x]]
\* Set behaving as Add: the value joins the values the key has
ValuesSet_Append(m, k, v) ==
  [x \in DOMAIN m \cup {k} |->
     IF x = k THEN (IF k \in DOMAIN m THEN Append(m[k], v) ELSE <<v>>) ELSE m[x]]

\* Values.Set replaces every value of the key by the one given
ValuesSet(m, k, v) == [x \in DOMAIN m \cup {k} |-> IF x = k THEN <<v>> ELSE m[x]]

RECURSIVE parseQuery(_, _)
\* url.parseQuery: pairs are separated by &, a pair holding ; or a bad escape
\* is dropped (Query() discards the error)
parseQuery(m, query) ==
  IF query = <<>> THEN m
  ELSE LET pair == CutBefore(query, "&")
           rest == CutAfter(query, "&")
           k == QueryUnescape(CutBefore(pair, "="))
           v == QueryUnescape(CutAfter(pair, "="))
       IN IF pair = <<>> \/ IndexOf(pair, ";") # 0 \/ ~k.ok \/ ~v.ok
          THEN parseQuery(m, rest)
          ELSE parseQuery(ValuesAdd(m, k.s, v.s), rest)

RECURSIVE EncodeKey(_, _)
\* the key=value pairs of one key, in the order of its values, each led by &
EncodeKey(k, vs) ==
  IF vs = <<>> THEN <<>>
  ELSE <<"&">> \o QueryEscape(k) \o <<"=">> \o QueryEscape(Head(vs)) \o EncodeKey(k, Tail(vs))

RECURSIVE EncodeKeys(_, _)
\* the pairs of the keys of ks, smallest key first
EncodeKeys(m, ks) ==
  IF ks = {} THEN <<>>
  ELSE LET k == CHOOSE x \in ks : \A y \in ks \ {x} : StrLess(x, y)
       IN EncodeKey(k, m[k]) \o EncodeKeys(m, ks \ {k})

\* Values.Encode: "URL encoded" form sorted by key
Encode(m) == LET e == EncodeKeys(m, DOMAIN m) IN IF e = <<>> THEN <<>> ELSE Tail(e)

\* url.Parse, for references without fragment or escapes before the query:
\* [ok, base, RawQuery, ForceQuery].  A leading colon is "missing protocol
\* scheme"; a % in the part before the query is read as an invalid escape.
Parse(rawURL) ==
  LET base == CutBefore(rawURL, "?")
      q == CutAfter(rawURL, "?")
  IN IF (rawURL # <<>> /\ Head(rawURL) = ":") \/ IndexOf(base, "%") # 0
     THEN [ok |-> FALSE, base |-> <<>>, RawQuery |-> <<>>, ForceQuery |-> FALSE]
     ELSE [ok |-> TRUE, base |-> base, RawQuery |-> q,
           ForceQuery |-> (IndexOf(rawURL, "?") = Len(rawURL) /\ rawURL # <<>>)]

\* URL.String
String(u) ==
  u.base \o (IF u.ForceQuery \/ u.RawQuery # <<>> THEN <<"?">> \o u.RawQuery ELSE <<>>)

RECURSIVE SetAll(_, _)
\* the loop of resolveUrlWithParameter: queryValue.Set(key, value) for every
\* entry of the map (distinct keys, so the iteration order does not matter)
SetAll(queryValue, parameters) ==
  IF DOMAIN parameters = {} THEN queryValue
  ELSE LET key == CHOOSE k \in DOMAIN parameters : TRUE
       IN SetAll(ValuesSet(queryValue, key, parameters[key]),
                 [k \in DOMAIN parameters \ {key} |-> parameters[k]])

\* resolveUrlWithParameter: [url, err]
resolveUrlWithParameter(urlString, parameters) ==
  LET url == Parse(urlString)
      queryValue == SetAll(parseQuery(NoValues, url.RawQuery), parameters)
  IN IF ~url.ok THEN [url |-> <<>>, err |-> UrlParseErr]
     ELSE [url |-> String([url EXCEPT !.RawQuery = Encode(queryValue)]), err |-> NilErr]

(* ----------------------------- net/http -------------------------------- *)
\* json.Marshal of the bodies the model passes: nil, the string "a", and a
\* value that cannot be marshalled (a channel): [bytes, err]
Marshal(body) ==
  CASE body = "nil" -> [bytes |-> <<"n", "u", "l", "l">>, err |-> NilErr]
    [] body = "a" -> [bytes |-> <<"\"", "a", "\"">>, err |-> NilErr]
    [] OTHER -> [bytes |-> <<>>, err |-> NewErr("json", <<"json: unsupported type">>)]

\* a RequestMethodType value that is no HTTP token (it holds a space)
BadMethod == "BAD METHOD"
\* net/http validMethod, on the method names in use
validMethod(method) == method \in RequestMethodType

\* the request before http.NewRequest has built one
NoRequest ==
  [Method |-> "", URL |-> <<>>, Body |-> <<>>, hasBody |-> FALSE,
   Header |-> {}, ctx |-> Background]

\* http.NewRequest accepting every method and url
NewRequest_Unchecked(method, url, hasBody, payload) ==
  [req |-> [Method |-> method, URL |-> url, Body |-> payload,
            hasBody |-> hasBody, Header |-> {}, ctx |-> Background],
   err |-> NilErr]

\* http.NewRequest(method, url, body): [req, err].  It is
\* NewRequestWithContext(context.Background(), ...): the request's context is
\* the background context.  It fails on an invalid method or unparsable URL.
NewRequest(method, url, hasBody, payload) ==
  IF ~validMethod(method) \/ ~Parse(url).ok
  THEN [req |-> NoRequest, err |-> NewRequestErr]
  ELSE [req |-> [Method |-> method, URL |-> url, Body |-> payload,
                 hasBody |-> hasBody, Header |-> {}, ctx |-> Background],
        err |-> NilErr]

\* textproto.CanonicalMIMEHeaderKey on the header names in use
CanonicalKey(k) == IF k = "test" THEN "Test" ELSE k

\* mapHeader2netHeader: every entry is Set under its canonical key.  A header
\* map is a set of <<key, value>> pairs with distinct canonical keys.
mapHeader2netHeader(header) == {<<CanonicalKey(e[1]), <<e[2]>>>> : e \in header.m}

\* ReadAll with the read error lost: what was read counts as the whole body
ReadAll_ErrDropped(body) ==
  [data |-> IF body.failAt < 0 THEN body.data ELSE SubSeq(body.data, 1, body.failAt),
   err |-> NilErr]

\* io.ReadAll(Body): the bytes read and the error.  A body delivers its data
\* and EOF, or fails after failAt bytes (failAt = -1: no failure); closeErr
\* tells whether its Close() returns an error.
ReadAll(body) ==
  IF body.failAt < 0 THEN [data |-> body.data, err |-> NilErr]
  ELSE [data |-> SubSeq(body.data, 1, body.failAt), err |-> ReadErr]

\* doParseResponse taking every 2xx status for a success
doParseResponse_2xx(httpResponse, err) ==
  IF httpResponse.isNil THEN Tuple(-1, NilHeader, NilData, err)
  ELSE LET code == httpResponse.StatusCode
           headers == [isNil |-> FALSE, h |-> httpResponse.Header]
           body == httpResponse.Body
           data == IF body.failAt < 0 THEN body.data ELSE SubSeq(body.data, 1, body.failAt)
       IN IF code < 200 \/ code > 299
          THEN Tuple(code, headers, NilData,
                     NewErr("remote", <<"remote error, url: code ">> \o Itoa(code)
                                      \o <<", response body: ">> \o data))
          ELSE IF body.failAt >= 0
          THEN Tuple(code, headers, NilData,
                     NewErr("parse", <<"Couldn't parse response body, err: ">> \o ReadErr.text))
          ELSE Tuple(code, headers, Bytes(data), NilErr)

\* doParseResponse(httpResponse, err), for a response or its absence (NoResp)
NoResp == [isNil |-> TRUE, StatusCode |-> 0, Header |-> {},
           Body |-> [data |-> <<>>, failAt |-> -1, closeErr |-> FALSE]]
doParseResponse(httpResponse, err) ==
  IF err # NilErr /\ httpResponse.isNil THEN Tuple(-1, NilHeader, NilData, err)
  ELSE IF httpResponse.isNil THEN Tuple(-1, NilHeader, NilData, NilErr)
  ELSE LET code == httpResponse.StatusCode
           headers == [isNil |-> FALSE, h |-> httpResponse.Header]
           read == ReadAll(httpResponse.Body)
       IN IF code # StatusOK
          THEN Tuple(code, headers, NilData,
                     NewErr("remote", <<"remote error, url: code ">> \o Itoa(code)
                                      \o <<", response body: ">> \o read.data))
          ELSE IF read.err # NilErr
          THEN Tuple(code, headers, NilData,
                     NewErr("parse", <<"Couldn't parse response body, err: ">> \o read.err.text))
          ELSE Tuple(code, headers, Bytes(read.data), NilErr)

(* ------------------------------ inputs --------------------------------- *)
\* the public operations: the method they send, whether the caller supplies
\* the context (otherwise context.Background()), whether they pass the body on
Ops ==
  {[name |-> "Get", method |-> GET, withCtx |-> FALSE, passBody |-> FALSE],
   [name |-> "GetWithContext", method |-> GET, withCtx |-> TRUE, passBody |-> FALSE],
   [name |-> "Post", method |-> POST, withCtx |-> FALSE, passBody |-> TRUE],
   [name |-> "PostWithContext", method |-> POST, withCtx |-> TRUE, passBody |-> TRUE],
   [name |-> "Patch", method |-> PATCH, withCtx |-> FALSE, passBody |-> TRUE],
   [name |-> "PatchWithContext", method |-> PATCH, withCtx |-> TRUE, passBody |-> TRUE],
   [name |-> "Put", method |-> PUT, withCtx |-> FALSE, passBody |-> TRUE],
   [name |-> "PutWithContext", method |-> PUT, withCtx |-> TRUE, passBody |-> TRUE],
   [name |-> "Delete", method |-> DELETE, withCtx |-> FALSE, passBody |-> FALSE],
   [name |-> "DeleteWithContext", method |-> DELETE, withCtx |-> TRUE, passBody |-> TRUE]}
Op(n) == CHOOSE o \in Ops : o.name = n

UrlHost == <<"h", "t", "t", "p", ":", "/", "/", "h">>
UrlWithQuery == UrlHost \o <<"?", "e", "=", "1">>
UrlBad == <<":", "h">>
NoMap == [k \in {} |-> <<>>]
ParamMsg == [k \in {<<"m">>} |-> <<"{", "\"", "a", "\"", ":", "1", "}">>]

\* a header map (map[string]string): nil, or a set of <<key, value>> pairs
NilHeaderMap == [isNil |-> TRUE, m |-> {}]
HeaderMap(m) == [isNil |-> FALSE, m |-> m]

\* the calls the callers make: operation, url, header map, parameter map, body
CallInputs ==
  {[op |-> "Get", url |-> UrlHost, header |-> NilHeaderMap, parameter |-> NoMap,
    body |-> "nil"],
   [op |-> "GetWithContext", url |-> UrlWithQuery,
    header |-> HeaderMap({<<"test", "test">>}), parameter |-> ParamMsg, body |-> "nil"],
   [op |-> "PostWithContext", url |-> UrlHost, header |-> NilHeaderMap,
    parameter |-> ParamMsg, body |-> "a"],
   [op |-> "Put", url |-> UrlBad, header |-> NilHeaderMap, parameter |-> NoMap,
    body |-> "chan"],
   [op |-> "Patch", url |-> UrlHost, header |-> NilHeaderMap, parameter |-> NoMap,
    body |-> "chan"]}

NoInput == [op |-> "", url |-> <<>>, header |-> NilHeaderMap, parameter |-> NoMap,
            body |-> "nil"]

\* urls for resolveUrlWithParameter: a host without scheme (as "www.example.com"
\* of the test), alone and followed by a query: empty, one pair, a key with two
\* values, a key without "=", "+" and %XX escapes, a pair with an invalid
\* escape, a pair holding a semicolon; and a url that does not parse
UrlQueries ==
  {<<>>, <<"?">>, <<"?", "e", "=", "1">>,
   <<"?", "m", "=", "x", "&", "e", "=", "1", "&", "m", "=", "1", "&", "e", "=", "2">>,
   <<"?", "e", "&", "a", "=", "1", "+", "2">>,
   <<"?", "a", "=", "%", "2", "B", "&", "&", "=", "1">>,
   <<"?", "a", "=", "%", "x", "x", "&", "e", "=", "1">>,
   <<"?", "a", "=", "1", ";", "b", "=", "2">>}
UrlTexts == {<<"h">> \o q : q \in UrlQueries} \cup {UrlWithQuery, UrlBad}
\* parameter maps: nil, the msg of the test, values and keys holding the
\* characters the query syntax uses, an empty value, two keys
ParamMaps ==
  {NoMap, ParamMsg,
   [k \in {<<"m">>} |-> <<"a", "+", "b", "&", "e", "=", " ", "%">>],
   [k \in {<<"e">>} |-> <<>>],
   [k \in {<<"a", " ", "b">>, <<"e">>} |-> IF k = <<"e">> THEN <<"2">> ELSE <<"a", ";">>]}
UrlInputs ==
  {[op |-> "Get", url |-> u, header |-> NilHeaderMap, parameter |-> p, body |-> "nil"] :
     u \in UrlTexts, p \in ParamMaps}

\* what the server behind the transport may answer
StatusCodes == {200, 201, 404}
RespHeader == {<<"Content-Type", <<"x">>>>}
RECURSIVE BodiesUpTo(_)
BodiesUpTo(n) == IF n = 0 THEN {<<>>} ELSE BodiesUpTo(n - 1) \cup {Append(b, "a") : b \in BodiesUpTo(n - 1)}
RespBodies ==
  {[data |-> d, failAt |-> f, closeErr |-> e] :
     d \in BodiesUpTo(MaxBody), f \in -1..MaxBody, e \in BOOLEAN}
Responses ==
  {[isNil |-> FALSE, StatusCode |-> code, Header |-> RespHeader, Body |-> b] :
     code \in StatusCodes, b \in {x \in RespBodies : x.failAt <= Len(x.data)}}
Clients == {"default", "custom"}

(* ------------------------------- state --------------------------------- *)
VARIABLES
  globalHttpHook,  \* the slice header [arr, len, cap] of the hook registry
  heap,            \* the backing arrays: heap[arr][i] is a hook id (0: unset)
  nextHook,        \* number of AddHook calls begun; hooks are numbered by it
  addPc,           \* per registrar: "idle", "loaded", "appended"
  addArg,          \* per registrar: the hook being added
  addSlice,        \* per registrar: the slice header read, then the appended one
  raced,           \* has an AddHook call begun while another was under way
  httpClient,      \* the shared transport client
  pc,              \* per call: "idle", "before", "after", "done"
  callIn,          \* per call: the operation called and its arguments
  ctx,             \* per call: the local ctx of do
  cancelled,       \* per context root: has the caller cancelled it
  httpRequest,     \* per call: the request send built
  hooks,           \* per call: the slice header the running range loop holds
  ranged,          \* per call: the slice header the first range loop was given
  idx,             \* per call: position of the running range loop (1-based)
  rsp,             \* per call: the tuple doParseResponse returned
  result,          \* per call: the tuple returned to the caller
  closed,          \* per call: number of Body.Close() calls on its response
  trace            \* per call: the hook and transport invocations so far

vars == <<globalHttpHook, heap, nextHook, addPc, addArg, addSlice, raced, httpClient,
          pc, callIn, ctx, cancelled, httpRequest, hooks, ranged, idx, rsp, result, closed,
          trace>>
regVars == <<globalHttpHook, heap, nextHook, addPc, addArg, addSlice, raced>>
callVars == <<pc, callIn, ctx, httpRequest, hooks, ranged, idx, rsp, result, closed, trace>>

NilSlice == [arr |-> 0, len |-> 0, cap |-> 0]

Init ==
  /\ globalHttpHook = NilSlice
  /\ heap = <<>>
  /\ nextHook = 0
  /\ addPc = [t \in Registrars |-> "idle"]
  /\ addArg = [t \in Registrars |-> 0]
  /\ addSlice = [t \in Registrars |-> NilSlice]
  /\ raced = FALSE
  /\ httpClient = "default"
  /\ pc = [c \in Calls |-> "idle"]
  /\ callIn = [c \in Calls |-> NoInput]
  /\ ctx = [c \in Calls |-> Background]
  /\ cancelled = [r \in {0} \cup Calls |-> FALSE]
  /\ httpRequest = [c \in Calls |-> NoRequest]
  /\ hooks = [c \in Calls |-> NilSlice]
  /\ ranged = [c \in Calls |-> NilSlice]
  /\ idx = [c \in Calls |-> 0]
  /\ rsp = [c \in Calls |-> NoTuple]
  /\ result = [c \in Calls |-> NoTuple]
  /\ closed = [c \in Calls |-> 0]
  /\ trace = [c \in Calls |-> <<>>]

(* --------------------------- hook registry ----------------------------- *)
\* growth of append for a slice that is full: 0 -> 1 -> 2 -> 4 -> ...
GrowCap(cap) == IF cap = 0 THEN 1 ELSE 2 * cap

\* the range loop walking the slice from its last element to its first
At_Reversed(s, i) == heap[s.arr][s.len - i + 1]

\* the element at (1-based) position i of a slice
At(s, i) == heap[s.arr][i]

\* AddHook appending to an empty slice instead of to globalHttpHook
AddHookLoad_Fresh(t) ==
  /\ addPc[t] = "idle"
  /\ nextHook < MaxHooks
  /\ nextHook' = nextHook + 1
  /\ addArg' = [addArg EXCEPT ![t] = nextHook + 1]
  /\ addSlice' = [addSlice EXCEPT ![t] = NilSlice]
  /\ addPc' = [addPc EXCEPT ![t] = "loaded"]
  /\ raced' = (raced \/ \E u \in Registrars \ {t} : addPc[u] # "idle")
  /\ UNCHANGED <<globalHttpHook, heap, httpClient, cancelled>>
  /\ UNCHANGED callVars

\* AddHook, first step: evaluate globalHttpHook (the argument of append)
AddHookLoad(t) ==
  /\ addPc[t] = "idle"
  /\ nextHook < MaxHooks
  /\ nextHook' = nextHook + 1
  /\ addArg' = [addArg EXCEPT ![t] = nextHook + 1]
  /\ addSlice' = [addSlice EXCEPT ![t] = globalHttpHook]
  /\ addPc' = [addPc EXCEPT ![t] = "loaded"]
  /\ raced' = (raced \/ \E u \in Registrars \ {t} : addPc[u] # "idle")
  /\ UNCHANGED <<globalHttpHook, heap, httpClient, cancelled>>
  /\ UNCHANGED callVars

\* AddHook, second step: append writes the hook after the last element, in
\* place when the capacity allows and into a grown copy otherwise
AddHookAppend(t) ==
  LET s == addSlice[t]
      newcap == GrowCap(s.cap)
      copy == [i \in 1..newcap |->
                 IF i <= s.len THEN At(s, i) ELSE IF i = s.len + 1 THEN addArg[t] ELSE 0]
  IN /\ addPc[t] = "loaded"
     /\ IF s.len < s.cap
        THEN /\ heap' = [heap EXCEPT ![s.arr][s.len + 1] = addArg[t]]
             /\ addSlice' = [addSlice EXCEPT ![t] = [s EXCEPT !.len = s.len + 1]]
        ELSE /\ heap' = Append(heap, copy)
             /\ addSlice' = [addSlice EXCEPT ![t] =
                               [arr |-> Len(heap) + 1, len |-> s.len + 1, cap |-> newcap]]
     /\ addPc' = [addPc EXCEPT ![t] = "appended"]
     /\ UNCHANGED <<globalHttpHook, nextHook, addArg, raced, httpClient, cancelled>>
     /\ UNCHANGED callVars

\* AddHook, last step: assign the result of append to globalHttpHook
AddHookStore(t) ==
  /\ addPc[t] = "appended"
  /\ globalHttpHook' = addSlice[t]
  /\ addPc' = [addPc EXCEPT ![t] = "idle"]
  /\ UNCHANGED <<heap, nextHook, addArg, addSlice, raced, httpClient, cancelled>>
  /\ UNCHANGED callVars

\* SetHTTPClient
SetHTTPClient(client) ==
  /\ client # httpClient
  /\ httpClient' = client
  /\ UNCHANGED <<cancelled>>
  /\ UNCHANGED regVars
  /\ UNCHANGED callVars

\* the caller of call c cancels the context it supplied (or its deadline passes)
Cancel(c) ==
  /\ pc[c] # "done"
  /\ ~cancelled[c]
  /\ cancelled' = [cancelled EXCEPT ![c] = TRUE]
  /\ UNCHANGED <<httpClient>>
  /\ UNCHANGED regVars
  /\ UNCHANGED callVars

(* ------------------------------- calls --------------------------------- *)
\* one entry of trace: a Before or After invocation of the hook at position
\* pos of the range loop, or the httpClient.Do invocation
\* (for Do, ctxDone: whether the ctx of do was done when the client was
\* invoked; client: the client invoked)
Event(op, pos, hook, ctxIn, ctxOut, args, err, resp) ==
  [op |-> op, pos |-> pos, hook |-> hook, ctxIn |-> ctxIn, ctxOut |-> ctxOut,
   args |-> args, err |-> err, resp |-> resp,
   ctxDone |-> (op = "Do" /\ cancelled[ctxIn.root]),
   client |-> IF op = "Do" THEN httpClient ELSE ""]

\* How an invocation of a hook may behave: "keep" returns the context it was
\* given, "attach" one derived from it by attaching a value of this invocation
\* (as TimeHook.Before attaches time.Now(); the value is tagged with the call
\* it was made in), "fail" returns the context it was given and an error.
Behaviours == {"keep", "attach", "fail"}
HookReturn(c, h, phase, in, b) ==
  [ctx |-> IF b = "attach" THEN WithValue(in, <<h, phase>>, c) ELSE in,
   err |-> IF b = "fail" THEN HookErr(h, phase) ELSE NilErr]

\* the returned context dropped: every hook is given the context do was given
SetCtx_Dropped(c, _ctx) == ctx

\* the context kept in one variable that all calls share
SetCtx_Shared(c, _ctx) == [k \in Calls |-> _ctx]

\* the local ctx of do after "ctx = _ctx" in call c
SetCtx(c, _ctx) == [ctx EXCEPT ![c] = _ctx]

\* the call returns tuple t
ReturnTuple(c, t) ==
  /\ result' = [result EXCEPT ![c] = t]
  /\ pc' = [pc EXCEPT ![c] = "done"]

\* the first loop going on to the next hook after an error
BeforeFailed_Continue(c, err) ==
  /\ idx' = [idx EXCEPT ![c] = @ + 1]
  /\ UNCHANGED <<pc, result>>

\* an After error returned with the response values instead of (-1, nil, nil)
AfterFailed_KeepResponse(c, err) ==
  /\ ReturnTuple(c, [rsp[c] EXCEPT !.err = err])
  /\ UNCHANGED idx

\* a failed transport call tried once more
DoFailed_Retry(c, err) ==
  IF \A k \in 1..Len(trace[c]) : trace[c][k].op # "Do"
  THEN UNCHANGED <<pc, result, rsp, closed, hooks, idx>>
  ELSE /\ ReturnTuple(c, Tuple(-1, NilHeader, NilData, err))
       /\ UNCHANGED <<rsp, closed, hooks, idx>>

\* "if err != nil { return -1, nil, nil, err }" in the first loop of do
BeforeFailed(c, err) ==
  /\ ReturnTuple(c, Tuple(-1, NilHeader, NilData, err))
  /\ UNCHANGED idx

\* "if err != nil { return -1, nil, nil, err }" in the second loop of do
AfterFailed(c, err) ==
  /\ ReturnTuple(c, Tuple(-1, NilHeader, NilData, err))
  /\ UNCHANGED idx

\* a failed transport call returned without its error
DoFailed_ErrDropped(c, err) ==
  /\ ReturnTuple(c, Tuple(-1, NilHeader, NilData, NilErr))
  /\ UNCHANGED <<rsp, closed, hooks, idx>>

\* "if err != nil { return -1, nil, nil, err }" after httpClient.Do
DoFailed(c, err) ==
  /\ ReturnTuple(c, Tuple(-1, NilHeader, NilData, err))
  /\ UNCHANGED <<rsp, closed, hooks, idx>>

\* the body closed only when the status is 200
CloseBody_OnSuccess(c, httpResponse) ==
  closed' = [closed EXCEPT ![c] =
               IF httpResponse.isNil \/ httpResponse.StatusCode # StatusOK THEN @ ELSE @ + 1]

\* the deferred Body.Close() of doParseResponse, which runs on each of its
\* returns once a response is there; an error of Close is logged only
CloseBody(c, httpResponse) ==
  closed' = [closed EXCEPT ![c] = IF httpResponse.isNil THEN @ ELSE @ + 1]

\* send returning the error of json.Marshal instead of dropping it
send_MarshalChecked(c, callCtx, method, url, header, parameter, body) ==
  LET r == resolveUrlWithParameter(url, parameter)
      withPayload == method \in {POST, PUT, PATCH}
      m == IF withPayload THEN Marshal(body) ELSE [bytes |-> <<>>, err |-> NilErr]
      nr == NewRequest(method, r.url, withPayload, m.bytes)
  IN IF r.err # NilErr
     THEN /\ ReturnTuple(c, Tuple(0, NilHeader, NilData, r.err))
          /\ UNCHANGED <<ctx, httpRequest, hooks, ranged, idx>>
     ELSE IF m.err # NilErr \/ nr.err # NilErr
     THEN /\ ReturnTuple(c, Tuple(-1, NilHeader, NilData, IF m.err # NilErr THEN m.err ELSE nr.err))
          /\ UNCHANGED <<ctx, httpRequest, hooks, ranged, idx>>
     ELSE /\ httpRequest' = [httpRequest EXCEPT ![c] =
                               IF ~header.isNil
                               THEN [nr.req EXCEPT !.Header = mapHeader2netHeader(header)]
                               ELSE nr.req]
          /\ ctx' = [ctx EXCEPT ![c] = callCtx]
          /\ hooks' = [hooks EXCEPT ![c] = globalHttpHook]
          /\ ranged' = [ranged EXCEPT ![c] = globalHttpHook]
          /\ idx' = [idx EXCEPT ![c] = 1]
          /\ pc' = [pc EXCEPT ![c] = "before"]
          /\ UNCHANGED result

\* send up to the first range loop of do: resolve the url, build the request,
\* attach the headers, evaluate globalHttpHook for the Before loop
send(c, callCtx, method, url, header, parameter, body) ==
  LET r == resolveUrlWithParameter(url, parameter)
      withPayload == method \in {POST, PUT, PATCH}
      payload == IF withPayload THEN Marshal(body).bytes ELSE <<>>
      nr == NewRequest(method, r.url, withPayload, payload)
  IN IF r.err # NilErr
     THEN /\ ReturnTuple(c, Tuple(0, NilHeader, NilData, r.err))
          /\ UNCHANGED <<ctx, httpRequest, hooks, ranged, idx>>
     ELSE IF nr.err # NilErr
     THEN /\ ReturnTuple(c, Tuple(-1, NilHeader, NilData, nr.err))
          /\ UNCHANGED <<ctx, httpRequest, hooks, ranged, idx>>
     ELSE /\ httpRequest' = [httpRequest EXCEPT ![c] =
                               IF ~header.isNil
                               THEN [nr.req EXCEPT !.Header = mapHeader2netHeader(header)]
                               ELSE nr.req]
          /\ ctx' = [ctx EXCEPT ![c] = callCtx]
          /\ hooks' = [hooks EXCEPT ![c] = globalHttpHook]
          /\ ranged' = [ranged EXCEPT ![c] = globalHttpHook]
          /\ idx' = [idx EXCEPT ![c] = 1]
          /\ pc' = [pc EXCEPT ![c] = "before"]
          /\ UNCHANGED result

\* a caller invokes one of the public operations
Send(c, inputs) ==
  /\ pc[c] = "idle"
  /\ \E in \in inputs :
       LET o == Op(in.op)
       IN /\ callIn' = [callIn EXCEPT ![c] = in]
          /\ send(c, IF o.withCtx THEN CallerCtx(c) ELSE Background, o.method, in.url,
                  in.header, in.parameter, IF o.passBody THEN in.body ELSE "nil")
  /\ UNCHANGED <<rsp, closed, trace, httpClient, cancelled>>
  /\ UNCHANGED regVars

\* send invoked from inside the package, with a method of the caller's choice;
\* the call is recorded with the method in place of an operation name
SendWith(c, methods, inputs) ==
  /\ pc[c] = "idle"
  /\ \E method \in methods, in \in inputs :
       /\ callIn' = [callIn EXCEPT ![c] = [in EXCEPT !.op = method]]
       /\ send(c, Background, method, in.url, in.header, in.parameter, in.body)
  /\ UNCHANGED <<rsp, closed, trace, httpClient, cancelled>>
  /\ UNCHANGED regVars

\* one iteration of the first loop of do: hook.Before(ctx, httpRequest)
BeforeHook(c, behaviours) ==
  /\ pc[c] = "before"
  /\ idx[c] <= hooks[c].len
  /\ LET hook == At(hooks[c], idx[c])
     IN \E b \in behaviours :
          LET ret == HookReturn(c, hook, "Before", ctx[c], b)
              _ctx == ret.ctx
              err == ret.err
          IN /\ trace' = [trace EXCEPT ![c] =
                            Append(@, Event("Before", idx[c], hook, ctx[c], _ctx, NoTuple, err, NoResp))]
             /\ ctx' = SetCtx(c, _ctx)
             /\ IF err # NilErr
                THEN BeforeFailed(c, err)
                ELSE /\ idx' = [idx EXCEPT ![c] = @ + 1]
                     /\ UNCHANGED <<pc, result>>
  /\ UNCHANGED <<callIn, httpRequest, hooks, ranged, rsp, closed, httpClient, cancelled>>
  /\ UNCHANGED regVars

\* what httpClient.Do(req) may return, [resp, err]: the round trip is given up
\* with an error once the request's own context is done, and may fail anyway
DoOutcomes(req, responses) ==
  IF cancelled[req.ctx.root]
  THEN {[resp |-> NoResp, err |-> CtxErr]}
  ELSE {[resp |-> NoResp, err |-> TransportErr]}
       \cup {[resp |-> r, err |-> NilErr] : r \in responses}

\* do after the first loop: httpClient.Do, doParseResponse (which closes the
\* body), and the evaluation of globalHttpHook for the After loop
Dispatch(c, responses) ==
  /\ pc[c] = "before"
  /\ idx[c] > hooks[c].len
  /\ \E out \in DoOutcomes(httpRequest[c], responses) :
       /\ trace' = [trace EXCEPT ![c] =
                      Append(@, Event("Do", 0, 0, ctx[c], ctx[c], NoTuple, out.err, out.resp))]
       /\ IF out.err # NilErr
          THEN DoFailed(c, out.err)
          ELSE /\ rsp' = [rsp EXCEPT ![c] = doParseResponse(out.resp, out.err)]
               /\ CloseBody(c, out.resp)
               /\ hooks' = [hooks EXCEPT ![c] = globalHttpHook]
               /\ idx' = [idx EXCEPT ![c] = 1]
               /\ pc' = [pc EXCEPT ![c] = "after"]
               /\ UNCHANGED result
  /\ UNCHANGED <<callIn, ctx, httpRequest, ranged, httpClient, cancelled>>
  /\ UNCHANGED regVars

\* the err of do assigned by each After call ("=" for ":="): a later hook is
\* handed the nil error the hook before it returned
AfterArgs_ErrAssigned(c) == IF idx[c] > 1 THEN [rsp[c] EXCEPT !.err = NilErr] ELSE rsp[c]

\* rspCode, rspHead, rspData and err as the second loop of do passes them: the
\* err a hook returns is a new variable of the loop body
AfterArgs(c) == rsp[c]

\* the second loop of do going through the hooks last to first
AfterHook_Reversed(c, behaviours) ==
  /\ pc[c] = "after"
  /\ idx[c] <= hooks[c].len
  /\ LET hook == At(hooks[c], hooks[c].len - idx[c] + 1)
     IN \E b \in behaviours :
          LET ret == HookReturn(c, hook, "After", ctx[c], b)
              _ctx == ret.ctx
              err == ret.err
          IN /\ trace' = [trace EXCEPT ![c] =
                            Append(@, Event("After", idx[c], hook, ctx[c], _ctx, AfterArgs(c), err, NoResp))]
             /\ ctx' = SetCtx(c, _ctx)
             /\ IF err # NilErr
                THEN AfterFailed(c, err)
                ELSE /\ idx' = [idx EXCEPT ![c] = @ + 1]
                     /\ UNCHANGED <<pc, result>>
  /\ UNCHANGED <<callIn, httpRequest, hooks, ranged, rsp, closed, httpClient, cancelled>>
  /\ UNCHANGED regVars

\* one iteration of the second loop of do: hook.After(ctx, rspCode, rspHead,
\* rspData, err) with the err of doParseResponse
AfterHook(c, behaviours) ==
  /\ pc[c] = "after"
  /\ idx[c] <= hooks[c].len
  /\ LET hook == At(hooks[c], idx[c])
     IN \E b \in behaviours :
          LET ret == HookReturn(c, hook, "After", ctx[c], b)
              _ctx == ret.ctx
              err == ret.err
          IN /\ trace' = [trace EXCEPT ![c] =
                            Append(@, Event("After", idx[c], hook, ctx[c], _ctx, AfterArgs(c), err, NoResp))]
             /\ ctx' = SetCtx(c, _ctx)
             /\ IF err # NilErr
                THEN AfterFailed(c, err)
                ELSE /\ idx' = [idx EXCEPT ![c] = @ + 1]
                     /\ UNCHANGED <<pc, result>>
  /\ UNCHANGED <<callIn, httpRequest, hooks, ranged, rsp, closed, httpClient, cancelled>>
  /\ UNCHANGED regVars

\* the last statement of do: return rspCode, rspHead, rspData, err
Return(c) ==
  /\ pc[c] = "after"
  /\ idx[c] > hooks[c].len
  /\ ReturnTuple(c, rsp[c])
  /\ UNCHANGED <<callIn, ctx, httpRequest, hooks, ranged, idx, rsp, closed, trace, httpClient,
                 cancelled>>
  /\ UNCHANGED regVars

\* the steps of the registrars and of the owner of the shared client
Register ==
  \/ \E t \in Registrars : AddHookLoad(t)
  \/ \E t \in Registrars : AddHookAppend(t)
  \/ \E t \in Registrars : AddHookStore(t)

\* One call at a time, with every input, hook behaviour and response, while
\* hooks are being registered and the client replaced.
Next ==
  \/ Register
  \/ \E client \in Clients : SetHTTPClient(client)
  \/ Cancel(1)
  \/ Send(1, CallInputs)
  \/ BeforeHook(1, Behaviours)
  \/ Dispatch(1, Responses)
  \/ AfterHook(1, Behaviours)
  \/ Return(1)

Spec == Init /\ [][Next]_vars

\* Overlapping calls, with one input and answer and hooks that attach values.
ConcInputs == {in \in CallInputs : in.op = "GetWithContext"}
ConcResponses == {r \in Responses : r.StatusCode = StatusOK /\ r.Body = [data |-> <<>>, failAt |-> -1, closeErr |-> FALSE]}
NextConc ==
  \/ Register
  \/ \E c \in Calls : Send(c, ConcInputs)
  \/ \E c \in Calls : BeforeHook(c, {"attach"})
  \/ \E c \in Calls : Dispatch(c, ConcResponses)
  \/ \E c \in Calls : AfterHook(c, {"attach"})
  \/ \E c \in Calls : Return(c)

SpecConc == Init /\ [][NextConc]_vars

\* resolveUrlWithParameter applied to the urls and parameter maps of UrlInputs
NextUrl == \E c \in Calls : Send(c, UrlInputs)

SpecUrl == Init /\ [][NextUrl]_vars

\* send called with every method, a valid one or not, while hooks are being
\* registered and the client replaced
NextSend ==
  \/ Register
  \/ \E client \in Clients : SetHTTPClient(client)
  \/ SendWith(1, RequestMethodType \cup {BadMethod}, CallInputs)
  \/ BeforeHook(1, {"keep", "fail"})
  \/ Dispatch(1, ConcResponses)
  \/ AfterHook(1, {"keep"})
  \/ Return(1)

SpecSend == Init /\ [][NextSend]_vars

(* --------------------------- properties -------------------------------- *)
Befores(c) == SelectSeq(trace[c], LAMBDA e : e.op = "Before")
Afters(c) == SelectSeq(trace[c], LAMBDA e : e.op = "After")
Dos(c) == SelectSeq(trace[c], LAMBDA e : e.op = "Do")
\* no Before or After invocation of call c returned an error
NoHookError(c) == \A k \in 1..Len(trace[c]) : trace[c][k].op = "Do" \/ trace[c][k].err = NilErr
\* s occurs in text as a contiguous piece
Embeds(text, s) ==
  \E i \in 0..(Len(text) - Len(s)) : \A j \in 1..Len(s) : text[i + j] = s[j]

\* C1: when a Before hook returns an error, it is the last invocation of the
\* call (no later Before hook, no transport call, no After hook) and the call
\* has returned (-1, nil, nil, that hook's error).
C1_BeforeErrorAborts ==
  \A c \in Calls : \A k \in 1..Len(trace[c]) :
    (trace[c][k].op = "Before" /\ trace[c][k].err # NilErr)
      => /\ k = Len(trace[c])
         /\ \A j \in 1..k : trace[c][j].op = "Before" /\ trace[c][j].pos <= trace[c][k].pos
         /\ Dos(c) = <<>> /\ Afters(c) = <<>>
         /\ pc[c] = "done"
         /\ result[c] = Tuple(-1, NilHeader, NilData, HookErr(trace[c][k].hook, "Before"))

\* C1 happens: the first of two registered hooks failed in Before
C1_Witness ==
  \E c \in Calls :
    /\ pc[c] = "done"
    /\ hooks[c].len >= 2
    /\ Len(trace[c]) = 1
    /\ trace[c][1].op = "Before" /\ trace[c][1].err # NilErr

\* C2: when an After hook returns an error, it is the last invocation of the
\* call and the call has returned (-1, nil, nil, that hook's error), whatever
\* the response was.
C2_AfterErrorAborts ==
  \A c \in Calls : \A k \in 1..Len(trace[c]) :
    (trace[c][k].op = "After" /\ trace[c][k].err # NilErr)
      => /\ k = Len(trace[c])
         /\ \A j \in 1..k : trace[c][j].op = "After" => trace[c][j].pos <= trace[c][k].pos
         /\ pc[c] = "done"
         /\ result[c] = Tuple(-1, NilHeader, NilData, HookErr(trace[c][k].hook, "After"))

\* C2 happens: a 200 response with a body was parsed, and the first of two
\* After hooks failed
C2_Witness ==
  \E c \in Calls :
    /\ pc[c] = "done"
    /\ hooks[c].len >= 2
    /\ rsp[c].code = StatusOK /\ rsp[c].err = NilErr /\ rsp[c].data.bytes # <<>>
    /\ Len(Afters(c)) = 1
    /\ Afters(c)[1].err # NilErr

\* C3: once a call whose transport call failed has returned, the After of every
\* hook its Before loop ran over has been invoked, in order, with
\* (-1 or 0, nil, nil, the transport error).
C3_AfterHooksSeeTransportFailure ==
  \A c \in Calls :
    (pc[c] = "done" /\ Dos(c) # <<>> /\ Dos(c)[1].err # NilErr)
      => /\ Len(Afters(c)) >= Len(Befores(c))
         /\ \A k \in 1..Len(Afters(c)) :
              /\ Afters(c)[k].pos = k
              /\ Afters(c)[k].args.code \in {-1, 0}
              /\ Afters(c)[k].args.headers = NilHeader
              /\ Afters(c)[k].args.data = NilData
              /\ Afters(c)[k].args.err = Dos(c)[1].err

\* the stage of a call an invocation belongs to
Rank(op) == IF op = "Before" THEN 0 ELSE IF op = "Do" THEN 1 ELSE 2
\* the invocations so far of the loop a call is in or was last in are those
\* of positions 1, 2, ... of hooks registered one after the other
InOrder(es) ==
  /\ \A k \in 1..Len(es) : es[k].pos = k
  /\ \A j, k \in 1..Len(es) : j < k => es[j].hook < es[k].hook
C4_State ==
  \A c \in Calls :
    /\ \A j, k \in 1..Len(trace[c]) : j < k => Rank(trace[c][j].op) <= Rank(trace[c][k].op)
    /\ InOrder(Befores(c))
    /\ InOrder(Afters(c))
\* a hook invocation calls the hook held at the loop's position in the registry
C4_Step ==
  \A c \in Calls :
    (Len(trace'[c]) = Len(trace[c]) + 1 /\ trace'[c][Len(trace'[c])].op # "Do")
      => LET e == trace'[c][Len(trace'[c])]
         IN /\ e.pos = idx[c]
            /\ e.hook = heap[hooks[c].arr][e.pos]
            /\ e.op = (IF pc[c] = "before" THEN "Before" ELSE "After")

\* C4: in every call the Before invocations come first, then the transport
\* call, then the After invocations; the Before invocations, and likewise the
\* After invocations, go through the registry from its first position on, one
\* position at a time, so in the order the hooks were registered.
C4_HookOrder == []C4_State /\ [][C4_Step]_vars

\* C4 happens: a call ran Before and After of two hooks around its transport call
C4_Witness ==
  \E c \in Calls :
    /\ pc[c] = "done"
    /\ Len(Befores(c)) = 2 /\ Len(Dos(c)) = 1 /\ Len(Afters(c)) = 2

\* the context the operation called passes to send
CallCtxOf(c) == IF Op(callIn[c].op).withCtx THEN CallerCtx(c) ELSE Background

\* C5: the first invocation of a call is given the caller's context and every
\* later one the context the one before returned; so what a Before attached
\* is in the context of every later Before and of every After.
C5_ContextThreaded ==
  \A c \in Calls :
    /\ trace[c] # <<>> => trace[c][1].ctxIn = CallCtxOf(c)
    /\ \A k \in 1..(Len(trace[c]) - 1) : trace[c][k + 1].ctxIn = trace[c][k].ctxOut
    /\ \A j, k \in 1..Len(trace[c]) :
         (j < k /\ trace[c][j].op = "Before" /\ trace[c][k].op # "Do")
           => trace[c][j].ctxOut.vals \subseteq trace[c][k].ctxIn.vals

\* C5 happens: the first Before attached a value, a second Before and an After
\* were given it
C5_Witness ==
  \E c \in Calls :
    /\ Len(Befores(c)) >= 2 /\ Len(Afters(c)) >= 1
    /\ Befores(c)[1].ctxOut # Befores(c)[1].ctxIn
    /\ Befores(c)[1].ctxOut.vals \subseteq Befores(c)[2].ctxIn.vals
    /\ Befores(c)[1].ctxOut.vals \subseteq Afters(c)[1].ctxIn.vals

\* C6: every hook invocation of a call is given a context that derives from
\* that call's own context and holds only values attached during that call.
C6_ContextsIndependent ==
  \A c \in Calls : \A k \in 1..Len(trace[c]) :
    /\ trace[c][k].ctxIn.root = c
    /\ \A p \in trace[c][k].ctxIn.vals \cup trace[c][k].ctxOut.vals : p[2] = c

\* C6 happens: two calls are under way at once, each with values attached
C6_Witness ==
  /\ \A c \in Calls : pc[c] \in {"before", "after"} /\ ctx[c].vals # {}
  /\ \E c \in Calls : Afters(c) # <<>>

\* the response the transport returned to call c
RespOf(c) == Dos(c)[1].resp
\* call c has returned, got a response, and none of its hooks failed
Answered(c) ==
  /\ pc[c] = "done"
  /\ Dos(c) # <<>> /\ Dos(c)[1].err = NilErr
  /\ NoHookError(c)

\* C7 as stated: a call answered with a status other than 200 returns the
\* status, the response headers, a nil body and an error whose text embeds the
\* status code and the text of the response body.
C7_NonOKEmbedsBody ==
  \A c \in Calls :
    (Answered(c) /\ RespOf(c).StatusCode # 200)
      => /\ result[c].code = RespOf(c).StatusCode
         /\ result[c].headers = [isNil |-> FALSE, h |-> RespOf(c).Header]
         /\ result[c].data = NilData
         /\ result[c].err # NilErr
         /\ Embeds(result[c].err.text, Itoa(RespOf(c).StatusCode))
         /\ Embeds(result[c].err.text, RespOf(c).Body.data)

\* the part of a body that a reader gets before the read fails (all of it when
\* it does not fail)
ReadPart(body) == IF body.failAt < 0 THEN body.data ELSE SubSeq(body.data, 1, body.failAt)

\* C7 amended: ... an error whose text embeds the status code and, after
\* "response body: ", the part of the response body that could be read.
C7_NonOKEmbedsReadPart ==
  \A c \in Calls :
    (Answered(c) /\ RespOf(c).StatusCode # 200)
      => /\ result[c].code = RespOf(c).StatusCode
         /\ result[c].headers = [isNil |-> FALSE, h |-> RespOf(c).Header]
         /\ result[c].data = NilData
         /\ result[c].err # NilErr
         /\ Embeds(result[c].err.text, Itoa(RespOf(c).StatusCode))
         /\ Embeds(result[c].err.text, <<", response body: ">> \o ReadPart(RespOf(c).Body))

\* C7 happens: a 201 with a body was returned as an error, after an After hook ran
C7_Witness ==
  \E c \in Calls :
    /\ Answered(c) /\ RespOf(c).StatusCode = 201
    /\ RespOf(c).Body = [data |-> <<"a">>, failAt |-> -1, closeErr |-> FALSE]
    /\ Afters(c) # <<>>

\* C8: a call answered with 200 returns (200, the response headers, the bytes
\* of the body, nil) when the body is read to its end, and (200, the headers,
\* nil, an error wrapping the read error) when reading it fails.
C8_OKReturnsBody ==
  \A c \in Calls :
    (Answered(c) /\ RespOf(c).StatusCode = 200)
      => /\ result[c].code = 200
         /\ result[c].headers = [isNil |-> FALSE, h |-> RespOf(c).Header]
         /\ IF RespOf(c).Body.failAt < 0
            THEN result[c].data = Bytes(RespOf(c).Body.data) /\ result[c].err = NilErr
            ELSE /\ result[c].data = NilData
                 /\ result[c].err # NilErr
                 /\ Embeds(result[c].err.text, ReadErr.text)

\* C8 happens: a 200 with a body read to its end was returned, after an After hook ran
C8_Witness ==
  \E c \in Calls :
    /\ Answered(c) /\ RespOf(c).StatusCode = 200
    /\ RespOf(c).Body.data # <<>>
    /\ Afters(c) # <<>>
    /\ RespOf(c).Body.failAt < 0

\* C9: when the context of a call, as the Before hooks left it, is done at the
\* time the transport is invoked, the transport call fails and the call returns
\* an error.
C9_CancellationReachesTransport ==
  \A c \in Calls :
    (pc[c] = "done" /\ Dos(c) # <<>> /\ Dos(c)[1].ctxDone)
      => Dos(c)[1].err # NilErr /\ result[c].err # NilErr

\* C10: a call invokes the transport at most once, and a call that has
\* returned has invoked it exactly once if and only if the url resolved, the
\* request was built and every registered Before hook returned nil.
C10_OneTransportCall ==
  \A c \in Calls :
    /\ Len(Dos(c)) <= 1
    /\ pc[c] = "done" =>
         LET in == callIn[c]
             r == resolveUrlWithParameter(in.url, in.parameter)
             built == r.err = NilErr /\ validMethod(Op(in.op).method) /\ Parse(r.url).ok
         IN (Len(Dos(c)) = 1) <=> (built /\ \A k \in 1..Len(Befores(c)) : Befores(c)[k].err = NilErr)

\* C10 happens: a call whose transport call failed has returned, after Before hooks
C10_Witness ==
  \E c \in Calls :
    /\ pc[c] = "done" /\ Befores(c) # <<>>
    /\ Len(Dos(c)) = 1 /\ Dos(c)[1].err # NilErr

\* the last invocation of call c before the step's end (a hook or the transport)
LastOp(t) == IF t = <<>> THEN "none" ELSE t[Len(t)].op
\* the stage moves of call c that the stage machine allows in one step: the
\* chain is entered from Idle, the transport is invoked from Before-running and
\* leads to After-running, Done is entered from After-running, and Aborted is
\* entered by a hook returning an error
C11_Step(c) ==
  \/ pc'[c] = pc[c]
  \/ pc[c] = "idle" /\ pc'[c] = "before"
  \/ pc[c] = "before" /\ pc'[c] = "after" /\ LastOp(trace'[c]) = "Do"
  \/ /\ pc[c] = "before" /\ pc'[c] = "done"
     /\ LastOp(trace'[c]) = "Before" /\ trace'[c][Len(trace'[c])].err # NilErr
  \/ pc[c] = "after" /\ pc'[c] = "done"

\* C11: a call moves only along Idle -> Before-running -> Dispatched ->
\* After-running -> Done, or into Aborted from Before-running or After-running
\* on a hook error; no call terminates directly from Idle or from Dispatched.
C11_StagesInOrder == [][\A c \in Calls : C11_Step(c)]_vars

\* URL.Query() of a url text: the values of the keys of its query
QueryOf(u) == parseQuery(NoValues, CutAfter(u, "?"))

RECURSIVE Segments(_)
\* the non-empty pieces of a query between its "&" separators, in order
Segments(q) ==
  IF q = <<>> THEN <<>>
  ELSE (IF CutBefore(q, "&") = <<>> THEN <<>> ELSE <<CutBefore(q, "&")>>)
       \o Segments(CutAfter(q, "&"))
\* a piece that url.Query() accepts: no semicolon, key and value unescape
WellFormed(seg) ==
  /\ IndexOf(seg, ";") = 0
  /\ QueryUnescape(CutBefore(seg, "=")).ok
  /\ QueryUnescape(CutAfter(seg, "=")).ok
\* a key or value decoded; a text that does not unescape stands for itself
Decoded(s) == IF QueryUnescape(s).ok THEN QueryUnescape(s).s ELSE s
\* the <<key, value>> pair a piece spells
PairOf(seg) == <<Decoded(CutBefore(seg, "=")), Decoded(CutAfter(seg, "="))>>
\* the url call c is sent to, against the url and parameters it was given:
\* the part before the query is the same; every piece of the new query decodes;
\* the pairs are the parameters and the pairs of the pieces `pre` of the
\* original query whose key is no parameter; keys are in ascending order
RoundTrip(c, pre) ==
  LET out == httpRequest[c].URL
      parameters == callIn[c].parameter
      segs == Segments(CutAfter(out, "?"))
  IN /\ CutBefore(out, "?") = CutBefore(callIn[c].url, "?")
     /\ \A i \in 1..Len(segs) : WellFormed(segs[i])
     /\ {PairOf(segs[i]) : i \in 1..Len(segs)}
          = {<<k, parameters[k]>> : k \in DOMAIN parameters}
            \cup {PairOf(s) : s \in {x \in pre : PairOf(x)[1] \notin DOMAIN parameters}}
     /\ \A i, j \in 1..Len(segs) :
          i < j => ~StrLess(PairOf(segs[j])[1], PairOf(segs[i])[1])
\* the pieces of the query call c was given
GivenPieces(c) ==
  LET segs == Segments(CutAfter(callIn[c].url, "?")) IN {segs[i] : i \in 1..Len(segs)}

UnserializableBody(c) ==
  /\ pc[c] # "idle"
  /\ Op(callIn[c].op).method \in {POST, PUT, PATCH}
  /\ Op(callIn[c].op).passBody
  /\ Marshal(callIn[c].body).err # NilErr
  /\ resolveUrlWithParameter(callIn[c].url, callIn[c].parameter).err = NilErr

\* C14: a POST, PUT or PATCH whose body cannot be serialized is sent with an
\* empty body; the call enters the hook chain and returns only after a hook or
\* the transport was invoked, and never returns the serialization error.
C14_MarshalErrorDropped ==
  \A c \in Calls :
    UnserializableBody(c) =>
      /\ httpRequest[c].Method = Op(callIn[c].op).method
      /\ httpRequest[c].hasBody /\ httpRequest[c].Body = <<>>
      /\ result[c].err.kind # "json"
      /\ pc[c] = "done" => trace[c] # <<>>

\* C14 happens: such a call ran a Before hook, was answered 200 by the
\* transport, ran an After hook and returned the answer
C14_Witness ==
  \E c \in Calls :
    /\ UnserializableBody(c) /\ pc[c] = "done"
    /\ Befores(c) # <<>> /\ Afters(c) # <<>>
    /\ result[c].code = StatusOK /\ result[c].err = NilErr

\* the transport of call c returned a response
GotResponse(c) == Dos(c) # <<>> /\ Dos(c)[1].err = NilErr

\* C15: the body of the response the transport returned is closed exactly
\* once, before the first After hook runs and so before the call returns on
\* any path (status other than 200, failed read, success, After hook error);
\* without a response nothing is closed; and the tuple a call returns is the
\* one it returns when Close() succeeds.
C15_BodyClosedOnce ==
  \A c \in Calls :
    /\ closed[c] = IF GotResponse(c) THEN 1 ELSE 0
    /\ Answered(c) =>
         result[c] = doParseResponse([RespOf(c) EXCEPT !.Body.closeErr = FALSE], NilErr)

\* C15 happens: a 404 whose body failed to close was parsed, and the call
\* returned from a failing After hook with the body closed once
C15_Witness ==
  \E c \in Calls :
    /\ pc[c] = "done" /\ GotResponse(c)
    /\ RespOf(c).StatusCode = 404 /\ RespOf(c).Body.closeErr
    /\ result[c].err.kind = "hook"
    /\ closed[c] = 1

\* what doParseResponse made of the response call c got
ParserTuple(c) == doParseResponse(RespOf(c), NilErr)

\* C16: every After hook of a call is handed the status code, headers, body
\* and error that doParseResponse returned, whatever the After hooks before it
\* returned; and a call none of whose hooks failed returns exactly that tuple,
\* its error included.
C16_AfterHooksSeeParserTuple ==
  \A c \in Calls :
    /\ \A k \in 1..Len(Afters(c)) : Afters(c)[k].args = ParserTuple(c)
    /\ Answered(c) => result[c] = ParserTuple(c)

\* C16 happens: a 404 was parsed into an error, two After hooks returned nil,
\* the first with a new context, and the call returned that error
C16_Witness ==
  \E c \in Calls :
    /\ Answered(c) /\ RespOf(c).StatusCode = 404
    /\ Len(Afters(c)) = 2
    /\ Afters(c)[1].ctxOut # Afters(c)[1].ctxIn
    /\ result[c].err.kind = "remote"

\* the method of call c: that of the operation called, or the one send was given
MethodOf(c) ==
  IF callIn[c].op \in {o.name : o \in Ops} THEN Op(callIn[c].op).method ELSE callIn[c].op
\* the url of call c does not resolve
ResolveFails(c) ==
  pc[c] # "idle" /\ resolveUrlWithParameter(callIn[c].url, callIn[c].parameter).err # NilErr
\* the url of call c resolves and no request can be built: the method is invalid
BuildFails(c) == pc[c] # "idle" /\ ~ResolveFails(c) /\ ~validMethod(MethodOf(c))
C17_State ==
  \A c \in Calls :
    /\ ResolveFails(c) =>
         /\ pc[c] = "done"
         /\ result[c] = Tuple(0, NilHeader, NilData, UrlParseErr)
         /\ trace[c] = <<>> /\ closed[c] = 0
    /\ BuildFails(c) =>
         /\ pc[c] = "done"
         /\ result[c] = Tuple(-1, NilHeader, NilData, NewRequestErr)
         /\ trace[c] = <<>> /\ closed[c] = 0
\* the step by which send returns without entering the hook chain
C17_Step ==
  \A c \in Calls :
    pc[c] = "idle" /\ pc'[c] = "done" =>
      UNCHANGED <<globalHttpHook, heap, httpClient>>

\* C17: a call whose url does not resolve has returned (0, nil, nil, the parse
\* error), and one whose request cannot be built (-1, nil, nil, the
\* construction error); neither invokes a Before hook, the transport or an
\* After hook, then or later, and the step that returns leaves the hook
\* registry and the shared client as they were.
C17_BuildFailuresReturnEarly == []C17_State /\ [][C17_Step]_vars

\* C17 happens: with two hooks registered and another client set, a call with
\* an invalid method has returned
C17_Witness ==
  /\ globalHttpHook.len = 2 /\ httpClient = "custom"
  /\ BuildFails(1)

\* the hooks of a slice, in order
HooksOf(s) == [i \in 1..s.len |-> At(s, i)]
IsPrefix(s, t) == Len(s) <= Len(t) /\ \A i \in 1..Len(s) : s[i] = t[i]
\* the hooks whose AddHook call has completed
Added == (1..nextHook) \ {addArg[t] : t \in {u \in Registrars : addPc[u] # "idle"}}
\* the registry holds each hook added once, and nothing else
C18_State ==
  /\ {HooksOf(globalHttpHook)[i] : i \in 1..globalHttpHook.len} = Added
  /\ globalHttpHook.len = Cardinality(Added)
\* the registry before a step is a prefix of the registry after it
C18_Step == IsPrefix(HooksOf(globalHttpHook), HooksOf(globalHttpHook)')

\* C18 as stated: under every interleaving of AddHook calls, overlapping ones
\* included, the registry at an earlier moment is a prefix of the registry at
\* a later one, and once n AddHook calls have completed it holds exactly their
\* n hooks, none lost or duplicated.
C18_AppendOnly == []C18_State /\ [][C18_Step]_vars

\* C18 amended: as long as no AddHook call has begun while another was under
\* way, the registry at an earlier moment is a prefix of the registry at a
\* later one, and once n AddHook calls have completed it holds exactly their n
\* hooks, none lost or duplicated.
C18_AppendOnlyInTurn == [](~raced => C18_State) /\ [][~raced' => C18_Step]_vars

\* C18 happens: two AddHook calls have completed, one after the other
C18_Witness ==
  /\ ~raced /\ \A t \in Registrars : addPc[t] = "idle"
  /\ HooksOf(globalHttpHook) = <<1, 2>>

\* the hooks of a sequence of invocations, in order
HookSeq(es) == [i \in 1..Len(es) |-> es[i].hook]
\* the hooks whose After call c has invoked are the first of those whose
\* Before it invoked, and all of them once the call has returned its answer
C19_Paired(c) ==
  /\ IsPrefix(HookSeq(Afters(c)), HookSeq(Befores(c)))
  /\ Answered(c) => HookSeq(Afters(c)) = HookSeq(Befores(c))

\* C19 as stated: in a call that is not aborted the hooks whose After is
\* invoked are, in order, the hooks whose Before was invoked, also when AddHook
\* runs during the call; no After runs of a hook whose Before did not run.
C19_AfterMatchesBefore ==
  \A c \in Calls : pc[c] \in {"after", "done"} /\ GotResponse(c) => C19_Paired(c)

\* C19 amended: ... provided the registry the After loop reads is the one the
\* Before loop read, that is, no AddHook call has completed in between.
C19_AfterMatchesBeforeSameRegistry ==
  \A c \in Calls :
    pc[c] \in {"after", "done"} /\ GotResponse(c) /\ hooks[c] = ranged[c] => C19_Paired(c)

\* C19 happens: a call ran Before and After of the one hook registered when it
\* began and returned, while a second hook was registered during its After loop
C19_Witness ==
  \E c \in Calls :
    /\ Answered(c) /\ hooks[c] = ranged[c]
    /\ Len(Befores(c)) = 1 /\ Len(Afters(c)) = 1
    /\ globalHttpHook.len = 2

\* C20: in the tuple a call has returned the body is there exactly when the
\* error is nil and the status code is 200; with a status code of -1 or 0 the
\* headers and the body are nil and the error is not.
C20_ResultTupleShape ==
  \A c \in Calls :
    pc[c] = "done" =>
      /\ ~result[c].data.isNil <=> (result[c].err = NilErr /\ result[c].code = StatusOK)
      /\ result[c].code \in {-1, 0} =>
           /\ result[c].headers = NilHeader
           /\ result[c].data = NilData
           /\ result[c].err # NilErr

\* C20 happens: a 200 whose body could not be read was returned, after an
\* After hook ran: status 200, no body, an error
C20_Witness ==
  \E c \in Calls :
    /\ pc[c] = "done" /\ Afters(c) # <<>>
    /\ result[c].code = StatusOK /\ result[c].data.isNil /\ result[c].err # NilErr

====
